---- MODULE Spec2Model ----
(***************************************************************************)
(* A model of the goarpa client library: the error mapper checkForError,   *)
(* the error-kind classifier ParseAPIErrType, the request builders and the *)
(* endpoint operations of the GoArpa client handle.                        *)
(*                                                                         *)
(* Conventions.                                                            *)
(*   - A Go string is a sequence of tokens; concatenation is \o and        *)
(*     strings.Contains is a contiguous-subsequence test.                  *)
(*   - A Go pointer, interface or error that may be nil is a sequence of   *)
(*     length at most one: << >> is nil and << v >> is a non-nil value v.  *)
(*                                                                         *)
(* Specifications.                                                         *)
(*   - Spec: one caller calling the operations one after the other on a    *)
(*     handle made without options.                                        *)
(*   - SpecNewClient: the handle made from any base host and options.      *)
(*   - SpecInFlight: concurrent callers on one handle.                     *)
(*   - SpecCancel: one caller cancelling its context during the round      *)
(*     trip, the transport giving the round trip up.                       *)
(***************************************************************************)
EXTENDS Integers, Sequences, FiniteSets, TLC

VARIABLES g, last, flight

vars == << g, last, flight >>

(***************************************************************************)
(* Bounds of the model.                                                    *)
(***************************************************************************)
\* longest error text / error body text, in tokens
MaxLen == 2

(***************************************************************************)
(* Strings.                                                                *)
(***************************************************************************)
\* the tokens error texts are made of
Tokens == { "invalid_", "grant", "EOF" }

\* all token sequences of length at most n
RECURSIVE TextsUpTo(_)
TextsUpTo(n) ==
    IF n = 0 THEN { << >> }
    ELSE LET shorter == TextsUpTo(n - 1)
         IN  shorter \cup { Append(t, c) : t \in shorter, c \in Tokens }

Texts == TextsUpTo(MaxLen)

\* strings.Contains(s, sub)
Contains(s, sub) ==
    \E i \in 1..(Len(s) + 1) :
        /\ i + Len(sub) - 1 <= Len(s)
        /\ SubSeq(s, i, i + Len(sub) - 1) = sub

\* the text "invalid_grant"
InvalidGrantMarker == << "invalid_", "grant" >>

Nil == << >>

IsNil(p) == Len(p) = 0

Deref(p) == p[1]

(***************************************************************************)
(* Error model (models.go).                                                *)
(***************************************************************************)
APIErrTypeUnknown == "unknown"

APIErrTypeInvalidGrant == "oauth: invalid grant"

\* ParseAPIErrType with the marker test dropped
ParseAPIErrType_AlwaysUnknown(err) == APIErrTypeUnknown

\* ParseAPIErrType: err is nil or << text >>
ParseAPIErrType(err) ==
    IF IsNil(err) THEN APIErrTypeUnknown
    ELSE IF Contains(Deref(err), InvalidGrantMarker) THEN APIErrTypeInvalidGrant
    ELSE APIErrTypeUnknown

\* APIError.Error()
APIErrorError(apiError) == apiError.Message

\* errors.Wrap(err, message).Error()
WrapError(err, message) == message \o << ": " >> \o Deref(err)

(***************************************************************************)
(* The structured error body the transport decodes on an error status.     *)
(***************************************************************************)
\* the decoded structured error: its "error" member
HTTPErrorResponse(text) == [ Error |-> text ]

HTTPErrorResponseNotEmpty(e) == Len(e.Error) > 0

HTTPErrorResponseString(e) == e.Error

(***************************************************************************)
(* JSON documents, as the transport's decoder sees them.  A value carries  *)
(* its JSON type; an object is a function from member names to values.     *)
(***************************************************************************)
JString(s) == [ t |-> "string", s |-> s, n |-> 0, b |-> FALSE, a |-> << >> ]

JNumber(n) == [ t |-> "number", s |-> << >>, n |-> n, b |-> FALSE, a |-> << >> ]

JBool(b) == [ t |-> "bool", s |-> << >>, n |-> 0, b |-> b, a |-> << >> ]

JNull == [ t |-> "null", s |-> << >>, n |-> 0, b |-> FALSE, a |-> << >> ]

\* an array of objects
JArray(a) == [ t |-> "array", s |-> << >>, n |-> 0, b |-> FALSE, a |-> a ]

\* the member names in the order they are written
KeyOrder ==
    << "BussinesCode", "BussinessID", "Existed", "ServiceName", "ItemCategoryId",
       "data", "error", "TransactionID", "TransNumber", "TransLineID", "ItemID",
       "BusinessID", "BusinessCode", "Mobile",
       "accessToken", "refreshToken", "expiresAt" >>

RECURSIVE EncodeValue(_), EncodeMembers(_, _, _), EncodeElements(_, _)
\* the text of a JSON value
EncodeValue(v) ==
    CASE v.t = "string" -> << "\"" >> \o v.s \o << "\"" >>
      [] v.t = "number" -> << ToString(v.n) >>
      [] v.t = "bool"   -> << IF v.b THEN "true" ELSE "false" >>
      [] v.t = "null"   -> << "null" >>
      [] v.t = "array"  -> << "[" >> \o EncodeElements(v.a, 1) \o << "]" >>

\* the members of obj from position i of KeyOrder on
EncodeMembers(obj, i, first) ==
    IF i > Len(KeyOrder) THEN << >>
    ELSE IF KeyOrder[i] \in DOMAIN obj
    THEN (IF first THEN << >> ELSE << "," >>)
         \o << KeyOrder[i], ":" >> \o EncodeValue(obj[KeyOrder[i]])
         \o EncodeMembers(obj, i + 1, FALSE)
    ELSE EncodeMembers(obj, i + 1, first)

\* the elements of an array of objects from position i on
EncodeElements(a, i) ==
    IF i > Len(a) THEN << >>
    ELSE (IF i = 1 THEN << >> ELSE << "," >>)
         \o << "{" >> \o EncodeMembers(a[i], 1, TRUE) \o << "}" >>
         \o EncodeElements(a, i + 1)

\* the text of a JSON object
EncodeObject(obj) == << "{" >> \o EncodeMembers(obj, 1, TRUE) \o << "}" >>

\* the object with no members
EmptyObject == [ k \in {} |-> JNull ]

(***************************************************************************)
(* encoding/json.Unmarshal into the response types of models.go and        *)
(* token.go.  A member that is absent or null leaves the field as it was;  *)
(* a member of the wrong JSON type is an unmarshal error.                   *)
(***************************************************************************)
Present(obj, key) == key \in DOMAIN obj /\ obj[key].t # "null"

TypeOk(obj, key, t) == Present(obj, key) => obj[key].t = t

StringField(obj, key, old) == IF Present(obj, key) THEN obj[key].s ELSE old

IntField(obj, key, old) == IF Present(obj, key) THEN obj[key].n ELSE old

BoolField(obj, key, old) == IF Present(obj, key) THEN obj[key].b ELSE old

\* interface{} field: keeps the decoded value
AnyField(obj, key, old) == IF key \in DOMAIN obj THEN obj[key] ELSE old

ZeroCreateCustomerResponse ==
    [ BusinessCode |-> << >>, BusinessID |-> << >>, Existed |-> FALSE ]

ZeroCreateServiceResponse == [ ServiceName |-> << >>, ItemCategoryID |-> 0 ]

ZeroDatum == [ TransactionID |-> 0, TransNumber |-> 0, TransLineID |-> 0, ItemID |-> 0 ]

ZeroCreateTransactionResponse == [ Data |-> << >>, Error |-> JNull ]

\* Datum2, with three of its string fields
ZeroDatum2 == [ BusinessID |-> << >>, BusinessCode |-> << >>, Mobile |-> << >> ]

ZeroGetCustomerResponse == [ Data |-> << >>, Error |-> JNull ]

\* JWT; the zero time.Time is the empty text here
ZeroJWT == [ AccessToken |-> << >>, RefreshToken |-> << >>, ExpiresAt |-> << >> ]

ZeroValue(type) ==
    CASE type = "CreateCustomerResponse"    -> ZeroCreateCustomerResponse
      [] type = "CreateServiceResponse"     -> ZeroCreateServiceResponse
      [] type = "CreateTransactionResponse" -> ZeroCreateTransactionResponse
      [] type = "GetCustomerResponse"       -> ZeroGetCustomerResponse
      [] type = "JWT"                       -> ZeroJWT
      [] type = "HTTPErrorResponse"         -> HTTPErrorResponse(<< >>)

DecodeDatum(obj) ==
    [ TransactionID |-> IntField(obj, "TransactionID", ZeroDatum.TransactionID),
      TransNumber   |-> IntField(obj, "TransNumber", ZeroDatum.TransNumber),
      TransLineID   |-> IntField(obj, "TransLineID", ZeroDatum.TransLineID),
      ItemID        |-> IntField(obj, "ItemID", ZeroDatum.ItemID) ]

DecodeDatum2(obj) ==
    [ BusinessID   |-> StringField(obj, "BusinessID", ZeroDatum2.BusinessID),
      BusinessCode |-> StringField(obj, "BusinessCode", ZeroDatum2.BusinessCode),
      Mobile       |-> StringField(obj, "Mobile", ZeroDatum2.Mobile) ]

\* the members of obj have the JSON types the fields of the Go type need
UnmarshalOk(type, obj) ==
    CASE type = "CreateCustomerResponse" ->
            /\ TypeOk(obj, "BussinesCode", "string")
            /\ TypeOk(obj, "BussinessID", "string")
            /\ TypeOk(obj, "Existed", "bool")
      [] type = "CreateServiceResponse" ->
            /\ TypeOk(obj, "ServiceName", "string")
            /\ TypeOk(obj, "ItemCategoryId", "number")
      [] type = "CreateTransactionResponse" -> TypeOk(obj, "data", "array")
      [] type = "GetCustomerResponse" -> TypeOk(obj, "data", "array")
      [] type = "JWT" ->
            /\ TypeOk(obj, "accessToken", "string")
            /\ TypeOk(obj, "refreshToken", "string")
            /\ TypeOk(obj, "expiresAt", "string")
      [] type = "HTTPErrorResponse" -> TypeOk(obj, "error", "string")

\* json.Unmarshal(body, &old) where old has the Go type `type`
Unmarshal(type, obj, old) ==
    CASE type = "CreateCustomerResponse" ->
            [ BusinessCode |-> StringField(obj, "BussinesCode", old.BusinessCode),
              BusinessID   |-> StringField(obj, "BussinessID", old.BusinessID),
              Existed      |-> BoolField(obj, "Existed", old.Existed) ]
      [] type = "CreateServiceResponse" ->
            [ ServiceName    |-> StringField(obj, "ServiceName", old.ServiceName),
              ItemCategoryID |-> IntField(obj, "ItemCategoryId", old.ItemCategoryID) ]
      [] type = "CreateTransactionResponse" ->
            [ Data  |-> IF Present(obj, "data")
                        THEN [ i \in 1..Len(obj["data"].a) |-> DecodeDatum(obj["data"].a[i]) ]
                        ELSE old.Data,
              Error |-> AnyField(obj, "error", old.Error) ]
      [] type = "GetCustomerResponse" ->
            [ Data  |-> IF Present(obj, "data")
                        THEN [ i \in 1..Len(obj["data"].a) |-> DecodeDatum2(obj["data"].a[i]) ]
                        ELSE old.Data,
              Error |-> AnyField(obj, "error", old.Error) ]
      [] type = "JWT" ->
            [ AccessToken  |-> StringField(obj, "accessToken", old.AccessToken),
              RefreshToken |-> StringField(obj, "refreshToken", old.RefreshToken),
              ExpiresAt    |-> StringField(obj, "expiresAt", old.ExpiresAt) ]
      [] type = "HTTPErrorResponse" ->
            [ Error |-> StringField(obj, "error", old.Error) ]

(***************************************************************************)
(* resty.Response accessors.                                               *)
(***************************************************************************)
RECURSIVE TrimSpace(_)
\* strings.TrimSpace: white space is the token " "
TrimSpace(s) ==
    IF Len(s) > 0 /\ s[1] = " " THEN TrimSpace(Tail(s))
    ELSE IF Len(s) > 0 /\ s[Len(s)] = " " THEN TrimSpace(SubSeq(s, 1, Len(s) - 1))
    ELSE s

\* resp.String(): the body, with the white space around it trimmed
RespString(resp) == TrimSpace(resp.Body)

\* resp.Cookies()
RespCookies(resp) == resp.Cookies

\* resp.IsError(): status code above 399
IsError(resp) == resp.StatusCode > 399

\* resp.IsSuccess(): status code in 200..299
IsSuccess(resp) == resp.StatusCode > 199 /\ resp.StatusCode < 300

(***************************************************************************)
(* The client handle and its construction.                                 *)
(***************************************************************************)
urlSeparator == "/"

RECURSIVE Join(_, _)
\* strings.Join(path, sep)
Join(path, sep) ==
    IF Len(path) = 0 THEN << >>
    ELSE IF Len(path) = 1 THEN << path[1] >>
    ELSE << path[1], sep >> \o Join(Tail(path), sep)

makeURL(path) == Join(path, urlSeparator)

RECURSIVE TrimRight(_, _)
\* strings.TrimRight(s, cutset) for a one-character cutset
TrimRight(s, c) ==
    IF Len(s) > 0 /\ s[Len(s)] = c THEN TrimRight(SubSeq(s, 1, Len(s) - 1), c) ELSE s

RECURSIVE ApplyOptions_FirstWins(_, _)
\* the option loop run from the last option to the first
ApplyOptions_FirstWins(c, options) ==
    IF Len(options) = 0 THEN c
    ELSE LET o == options[Len(options)]
             c1 == IF o.field = "restyClient"
                   THEN [ c EXCEPT !.restyClient = o.value ]
                   ELSE [ c EXCEPT !.Config[o.field] = o.value ]
         IN  ApplyOptions_FirstWins(c1, SubSeq(options, 1, Len(options) - 1))

RECURSIVE ApplyOptions(_, _)
\* for _, option := range options { option(&c) }; an option sets one field
ApplyOptions(c, options) ==
    IF Len(options) = 0 THEN c
    ELSE LET o == Head(options)
             c1 == IF o.field = "restyClient"
                   THEN [ c EXCEPT !.restyClient = o.value ]
                   ELSE [ c EXCEPT !.Config[o.field] = o.value ]
         IN  ApplyOptions(c1, Tail(options))

NewClient(basePath, options) ==
    LET c == [ basePath    |-> TrimRight(basePath, urlSeparator),
               restyClient |-> "default",
               Config      |->
                   [ GetServiceTokenEndpoint   |-> makeURL(<< "serv", "token", "GetServiceToken" >>),
                     CreateCustomerEndpoint    |-> makeURL(<< "serv", "api", "PostBussiness" >>),
                     CreateTransactionEndpoint |-> makeURL(<< "serv", "api", "NewTransaction" >>),
                     CreateServiceEndpoint     |-> makeURL(<< "serv", "api", "PostService" >>),
                     GetCustomerEndpoint       |-> makeURL(<< "serv", "api", "GetBusiness" >>) ] ]
    IN  ApplyOptions(c, options)

(***************************************************************************)
(* Request builders.                                                       *)
(***************************************************************************)
\* context.Background().  A context holds a span or none, a tracer or none,
\* whether injecting its span works, and its Done channel: nil for a context
\* that cannot be cancelled, else the channel its cancel function closes
Background == [ span |-> FALSE, tracer |-> "none", injectOk |-> TRUE, done |-> Nil ]

\* the ambient contexts of the calls: without a span, or with a span, with
\* or without a tracer of its own, the injection working or failing
Contexts ==
    { Background } \cup
    { [ span |-> TRUE, tracer |-> t, injectOk |-> ok, done |-> Nil ] :
        t \in { "none", "ctxTracer" }, ok \in BOOLEAN }

NoHeader ==
    [ ContentType |-> << >>, CacheControl |-> << >>, Trace |-> << >>,
      username |-> << >>, password |-> << >> ]

\* g.restyClient.R(): a request with nothing set
NewRequest ==
    [ Context    |-> Background,
      Error      |-> "none",
      Header     |-> NoHeader,
      Token      |-> << >>,
      Cookies    |-> << >>,
      Result     |-> Nil,
      Body       |-> Nil,
      QueryParam |-> << >> ]

\* the injection giving up the request when it fails
injectTracingHeaders_DropsRequestOnFailure(ctx, req) ==
    IF ~ctx.span THEN req
    ELSE LET tracer == IF ctx.tracer = "none" THEN "global" ELSE ctx.tracer
         IN  IF ctx.injectOk
             THEN [ req EXCEPT !.Header.Trace = << tracer >> ]
             ELSE NewRequest

\* no span: the request as it is; else the tracer of the context, or the
\* global tracer when the context has none, writes the span into the headers;
\* when it fails the request is handed back as it is
injectTracingHeaders(ctx, req) ==
    IF ~ctx.span THEN req
    ELSE LET tracer == IF ctx.tracer = "none" THEN "global" ELSE ctx.tracer
         IN  IF ctx.injectOk
             THEN [ req EXCEPT !.Header.Trace = << tracer >> ]
             ELSE req

\* the builder leaving the context of the request as R() made it
GetRequest_BackgroundContext(ctx) ==
    injectTracingHeaders(ctx, [ NewRequest EXCEPT !.Error = "HTTPErrorResponse" ])

\* GetRequest: SetContext(ctx).SetError(&err) with err an HTTPErrorResponse
GetRequest(ctx) ==
    injectTracingHeaders(ctx,
        [ NewRequest EXCEPT !.Context = ctx, !.Error = "HTTPErrorResponse" ])

GetRequestWithBearerAuthNoCache(ctx, token) ==
    [ GetRequest(ctx) EXCEPT !.Token = token,
                             !.Header.ContentType = << "application/json" >>,
                             !.Header.CacheControl = << "no-cache" >> ]

GetRequestWithBearerAuth(ctx, token) ==
    [ GetRequest(ctx) EXCEPT !.Token = token,
                             !.Header.ContentType = << "application/json" >> ]

\* the builder attaching every cookie it is given
GetRequestWithBearerAuthWithCookie_AllCookies(ctx, token, cookie) ==
    [ GetRequest(ctx) EXCEPT !.Token = token,
                             !.Cookies = cookie,
                             !.Header.ContentType = << "application/json" >> ]

\* reads cookie[0]: the caller guards Len(cookie) > 0, an empty slice panics
GetRequestWithBearerAuthWithCookie(ctx, token, cookie) ==
    [ GetRequest(ctx) EXCEPT !.Token = token,
                             !.Cookies = << cookie[1] >>,
                             !.Header.ContentType = << "application/json" >> ]

\* resty getPointer: a pointer is kept, and aliases the caller's variable;
\* any other value is replaced by a pointer to a fresh zero value of its type
getPointer(type, isPointer) == [ type |-> type, aliasesCaller |-> isPointer ]

\* req.SetResult(v)
SetResult(req, type, isPointer) == [ req EXCEPT !.Result = << getPointer(type, isPointer) >> ]

\* req.SetBody(v)
SetBody(req, body) == [ req EXCEPT !.Body = << body >> ]

\* req.SetQueryParams / SetQueryParam: a sequence of << key, value >>
SetQueryParams(req, params) == [ req EXCEPT !.QueryParam = @ \o params ]

\* req.SetHeaders(map[string]string{"username": ..., "password": ...})
SetHeaders(req, username, password) ==
    [ req EXCEPT !.Header.username = username, !.Header.password = password ]

(***************************************************************************)
(* The transport: resty's Execute with its response middleware             *)
(* (parseResponseBody).                                                    *)
(***************************************************************************)
\* net/http status texts
StatusText(code) ==
    CASE code = 200 -> "OK"
      [] code = 304 -> "Not Modified"
      [] code = 400 -> "Bad Request"
      [] code = 500 -> "Internal Server Error"

\* a body of content type application/json
JsonBody(obj) == [ IsJSON |-> TRUE, text |-> EncodeObject(obj), doc |-> obj ]

\* a body of another content type
TextBody(text) == [ IsJSON |-> FALSE, text |-> text, doc |-> EmptyObject ]

\* the server's reply; the status line is the code followed by the reason
MkReply(code, reason, body, cookies) ==
    [ StatusCode |-> code,
      Status     |-> << ToString(code) >> \o reason,
      Body       |-> body,
      Cookies    |-> cookies ]

\* a response without a raw HTTP response: the round trip failed
NoReply == [ StatusCode |-> 0, Status |-> << >>, Body |-> TextBody(<< >>), Cookies |-> << >> ]

\* the text of an encoding/json type error
UnmarshalErrorText == << "json: cannot unmarshal" >>

\* the HTTP request resty puts on the wire for req: the headers of the
\* request, the Authorization header its credentials middleware adds for a
\* token that is not empty (none for an empty one), and the request's cookies
RawRequest(req, method, url) ==
    [ Method        |-> method,
      URL           |-> url,
      Context       |-> req.Context,
      Header        |-> req.Header,
      Authorization |-> IF req.Token # << >> THEN << "Bearer" >> \o req.Token ELSE << >>,
      Cookies       |-> req.Cookies ]

\* what Execute hands back: the response, the error, what the result
\* pointer of the request points to afterwards, and the request that went out
Execute(req, method, url, ev) ==
    LET hasResult == ~IsNil(req.Result)
        type      == IF hasResult THEN Deref(req.Result).type ELSE "HTTPErrorResponse"
        zero      == ZeroValue(type)
        errSlot   == [ type |-> req.Error, val |-> HTTPErrorResponse(<< >>) ]
        sent      == << RawRequest(req, method, url) >>
        mkResp(reply, e) ==
            [ StatusCode |-> reply.StatusCode,
              Status     |-> reply.Status,
              Error      |-> e,
              Body       |-> reply.Body.text,
              Cookies    |-> reply.Cookies ]
    IN  CASE ev.kind = "before" ->
                \* a request middleware failed: no response at all
                [ resp |-> Nil, err |-> << ev.err >>, pointee |-> zero, sent |-> Nil ]
          [] ev.kind = "read" ->
                \* the status line arrived, reading the body failed
                [ resp |-> << mkResp(ev.reply, errSlot) >>, err |-> << ev.err >>, pointee |-> zero,
                  sent |-> sent ]
          [] ev.kind = "io" ->
                \* the round trip failed: a response without raw response
                [ resp |-> << mkResp(NoReply, errSlot) >>, err |-> << ev.err >>, pointee |-> zero,
                  sent |-> sent ]
          [] ev.kind = "reply" ->
                LET r == ev.reply
                IN  IF r.Body.IsJSON /\ IsSuccess(r) /\ r.StatusCode # 204
                    THEN IF hasResult
                         THEN IF UnmarshalOk(type, r.Body.doc)
                              THEN [ resp    |-> << mkResp(r, [ type |-> "nil", val |-> HTTPErrorResponse(<< >>) ]) >>,
                                     err     |-> Nil,
                                     pointee |-> Unmarshal(type, r.Body.doc, zero),
                                     sent    |-> sent ]
                              ELSE [ resp    |-> << mkResp(r, [ type |-> "nil", val |-> HTTPErrorResponse(<< >>) ]) >>,
                                     err     |-> << UnmarshalErrorText >>,
                                     pointee |-> zero,
                                     sent    |-> sent ]
                         ELSE [ resp    |-> << mkResp(r, [ type |-> "nil", val |-> HTTPErrorResponse(<< >>) ]) >>,
                                err     |-> Nil,
                                pointee |-> zero,
                                sent    |-> sent ]
                    ELSE IF r.Body.IsJSON /\ IsError(r) /\ req.Error = "HTTPErrorResponse"
                              /\ UnmarshalOk("HTTPErrorResponse", r.Body.doc)
                    THEN [ resp    |-> << mkResp(r, [ type |-> req.Error,
                                                      val  |-> Unmarshal("HTTPErrorResponse", r.Body.doc,
                                                                         HTTPErrorResponse(<< >>)) ]) >>,
                           err     |-> Nil,
                           pointee |-> zero,
                           sent    |-> sent ]
                    ELSE [ resp |-> << mkResp(r, errSlot) >>, err |-> Nil, pointee |-> zero,
                           sent |-> sent ]

(***************************************************************************)
(* The error mapper.                                                       *)
(***************************************************************************)
\* checkForError with one slip: "nowrap" leaves the context message out,
\* "barestatus" never renders the structured error, "alwaysformat" renders it
\* without asking NotEmpty, "nilok" takes a nil response for a success,
\* "statusfirst" looks at the status before the transport error
checkForErrorWith(resp, err, errMessage, slip) ==
    LET transport ==
            << [ Code    |-> 0,
                 Message |-> IF slip = "nowrap" THEN Deref(err)
                             ELSE WrapError(err, errMessage),
                 Type    |-> ParseAPIErrType(err) ] >>
        status ==
            LET r == Deref(resp)
                e == r.Error
                msg == IF /\ slip # "barestatus"
                          /\ e.type = "HTTPErrorResponse"
                          /\ (slip = "alwaysformat" \/ HTTPErrorResponseNotEmpty(e.val))
                       THEN r.Status \o << ": " >> \o HTTPErrorResponseString(e.val)
                       ELSE r.Status
            IN  << [ Code    |-> r.StatusCode,
                     Message |-> msg,
                     Type    |-> ParseAPIErrType(err) ] >>
    IN  IF slip = "statusfirst" /\ ~IsNil(resp) /\ IsError(Deref(resp)) THEN status
        ELSE IF ~IsNil(err) THEN transport
        ELSE IF IsNil(resp)
        THEN IF slip = "nilok" THEN Nil
             ELSE << [ Code    |-> 0,
                       Message |-> << "empty response" >>,
                       Type    |-> ParseAPIErrType(err) ] >>
        ELSE IF IsError(Deref(resp)) THEN status
        ELSE Nil

checkForError_NoWrap(resp, err, errMessage) ==
    checkForErrorWith(resp, err, errMessage, "nowrap")

checkForError_BareStatus(resp, err, errMessage) ==
    checkForErrorWith(resp, err, errMessage, "barestatus")

checkForError_AlwaysFormat(resp, err, errMessage) ==
    checkForErrorWith(resp, err, errMessage, "alwaysformat")

checkForError_NilOk(resp, err, errMessage) ==
    checkForErrorWith(resp, err, errMessage, "nilok")

checkForError_StatusFirst(resp, err, errMessage) ==
    checkForErrorWith(resp, err, errMessage, "statusfirst")

\* checkForError(resp, err, errMessage): nil or << APIError >>
checkForError(resp, err, errMessage) ==
    IF ~IsNil(err)
    THEN << [ Code    |-> 0,
              Message |-> WrapError(err, errMessage),
              Type    |-> ParseAPIErrType(err) ] >>
    ELSE IF IsNil(resp)
    THEN << [ Code    |-> 0,
              Message |-> << "empty response" >>,
              Type    |-> ParseAPIErrType(err) ] >>
    ELSE IF IsError(Deref(resp))
    THEN LET r == Deref(resp)
             e == r.Error
             msg == IF e.type = "HTTPErrorResponse" /\ HTTPErrorResponseNotEmpty(e.val)
                    THEN r.Status \o << ": " >> \o HTTPErrorResponseString(e.val)
                    ELSE r.Status
         IN  << [ Code    |-> r.StatusCode,
                  Message |-> msg,
                  Type    |-> ParseAPIErrType(err) ] >>
    ELSE Nil

(***************************************************************************)
(* Endpoint operations.  Each takes the handle, the call's arguments and   *)
(* the transport event of its round trip, and gives what the call returns. *)
(***************************************************************************)
\* the query parameter names of shared/constant
MobileKey == "constant.MobileKey"

BusinessCodeKey == "constant.BusinessCodeKey"

\* what a call hands back to its caller, with the request it built and the
\* request that went out, if one did
Return(op, errMessage, req, rt, result, token, cookies, err) ==
    [ op         |-> op,
      status     |-> "returned",
      errMessage |-> errMessage,
      req        |-> req,
      sent       |-> rt.sent,
      resp       |-> rt.resp,
      terr       |-> rt.err,
      pointee    |-> << rt.pointee >>,
      result     |-> result,
      token      |-> token,
      cookies    |-> cookies,
      err        |-> err ]

\* a call that faulted before it sent anything
Panicked(op, errMessage) ==
    [ op         |-> op,
      status     |-> "panicked",
      errMessage |-> errMessage,
      req        |-> NewRequest,
      sent       |-> Nil,
      resp       |-> Nil,
      terr       |-> Nil,
      pointee    |-> Nil,
      result     |-> Nil,
      token      |-> << >>,
      cookies    |-> << >>,
      err        |-> Nil ]

\* what the caller's result variable holds after the round trip
CallerVariable(req, zero, rt) ==
    IF Deref(req.Result).aliasesCaller THEN rt.pointee ELSE zero

AdminAuthenticateCall(gg, ctx, username, password, ev) ==
    LET errMessage == << "could not get token" >>
        req == SetResult(SetHeaders(GetRequest(ctx), username, password), "JWT", TRUE)
        rt  == Execute(req, "POST",
                       gg.basePath \o << "/" >> \o gg.Config.GetServiceTokenEndpoint, ev)
        token == CallerVariable(req, ZeroJWT, rt)
        err == checkForError(rt.resp, rt.err, errMessage)
    IN  IF ~IsNil(err)
        THEN Return("AdminAuthenticate", errMessage, req, rt, Nil, << >>, << >>, err)
        ELSE Return("AdminAuthenticate", errMessage, req, rt, << token >>, << >>, << >>, Nil)

\* GetAdminToken with the cookies of the response dropped
GetAdminTokenCall_NoCookies(gg, ctx, username, password, ev) ==
    LET errMessage == << "could not get token" >>
        req == SetQueryParams(GetRequest(ctx),
                              << << "username", username >>, << "password", password >> >>)
        rt  == Execute(req, "GET",
                       gg.basePath \o << "/" >> \o gg.Config.GetServiceTokenEndpoint \o << "?" >>, ev)
        err == checkForError(rt.resp, rt.err, errMessage)
    IN  IF ~IsNil(err)
        THEN Return("GetAdminToken", errMessage, req, rt, Nil, << >>, << >>, err)
        ELSE Return("GetAdminToken", errMessage, req, rt, Nil,
                    RespString(Deref(rt.resp)), << >>, Nil)

GetAdminTokenCall(gg, ctx, username, password, ev) ==
    LET errMessage == << "could not get token" >>
        req == SetQueryParams(GetRequest(ctx),
                              << << "username", username >>, << "password", password >> >>)
        rt  == Execute(req, "GET",
                       gg.basePath \o << "/" >> \o gg.Config.GetServiceTokenEndpoint \o << "?" >>, ev)
        err == checkForError(rt.resp, rt.err, errMessage)
    IN  IF ~IsNil(err)
        THEN Return("GetAdminToken", errMessage, req, rt, Nil, << >>, << >>, err)
        ELSE Return("GetAdminToken", errMessage, req, rt, Nil,
                    RespString(Deref(rt.resp)), RespCookies(Deref(rt.resp)), Nil)

CreateCustomerCall(gg, ctx, accessToken, customer, ev) ==
    LET errMessage == << "could not create customer" >>
        req == SetResult(SetBody(GetRequestWithBearerAuth(ctx, accessToken), customer),
                         "CreateCustomerResponse", FALSE)
        rt  == Execute(req, "POST",
                       gg.basePath \o << "/" >> \o gg.Config.CreateCustomerEndpoint, ev)
        response == CallerVariable(req, ZeroCreateCustomerResponse, rt)
        err == checkForError(rt.resp, rt.err, errMessage)
    IN  IF ~IsNil(err)
        THEN Return("CreateCustomer", errMessage, req, rt, Nil, << >>, << >>, err)
        ELSE Return("CreateCustomer", errMessage, req, rt, << response >>, << >>, << >>, Nil)

\* CreateTransaction handing its response back along with the error
CreateTransactionCall_ResultWithError(gg, ctx, accessToken, transaction, ev) ==
    LET errMessage == << "could not create transaction" >>
        req == SetResult(SetBody(GetRequestWithBearerAuth(ctx, accessToken), transaction),
                         "CreateTransactionResponse", FALSE)
        rt  == Execute(req, "POST",
                       gg.basePath \o << "/" >> \o gg.Config.CreateTransactionEndpoint, ev)
        response == CallerVariable(req, ZeroCreateTransactionResponse, rt)
        err == checkForError(rt.resp, rt.err, errMessage)
    IN  Return("CreateTransaction", errMessage, req, rt, << response >>, << >>, << >>, err)

CreateTransactionCall(gg, ctx, accessToken, transaction, ev) ==
    LET errMessage == << "could not create transaction" >>
        req == SetResult(SetBody(GetRequestWithBearerAuth(ctx, accessToken), transaction),
                         "CreateTransactionResponse", FALSE)
        rt  == Execute(req, "POST",
                       gg.basePath \o << "/" >> \o gg.Config.CreateTransactionEndpoint, ev)
        response == CallerVariable(req, ZeroCreateTransactionResponse, rt)
        err == checkForError(rt.resp, rt.err, errMessage)
    IN  IF ~IsNil(err)
        THEN Return("CreateTransaction", errMessage, req, rt, Nil, << >>, << >>, err)
        ELSE Return("CreateTransaction", errMessage, req, rt, << response >>, << >>, << >>, Nil)

CreateServiceCall(gg, ctx, accessToken, service, ev) ==
    LET errMessage == << "could not create service" >>
        req == SetResult(SetBody(GetRequestWithBearerAuth(ctx, accessToken), service),
                         "CreateServiceResponse", FALSE)
        rt  == Execute(req, "POST",
                       gg.basePath \o << "/" >> \o gg.Config.CreateServiceEndpoint, ev)
        response == CallerVariable(req, ZeroCreateServiceResponse, rt)
        err == checkForError(rt.resp, rt.err, errMessage)
    IN  IF ~IsNil(err)
        THEN Return("CreateService", errMessage, req, rt, Nil, << >>, << >>, err)
        ELSE Return("CreateService", errMessage, req, rt, << response >>, << >>, << >>, Nil)

GetCustomerByMobileCall(gg, ctx, accessToken, cookie, mobile, ev) ==
    LET errMessage == << "could not get customer info" >>
    IN  IF Len(cookie) = 0
        THEN Panicked("GetCustomerByMobile", errMessage)
        ELSE LET req == SetResult(
                            SetQueryParams(
                                GetRequestWithBearerAuthWithCookie(ctx, accessToken, cookie),
                                << << MobileKey, mobile >> >>),
                            "GetCustomerResponse", TRUE)
                 rt  == Execute(req, "GET",
                                gg.basePath \o << "/" >> \o gg.Config.GetCustomerEndpoint, ev)
                 result == CallerVariable(req, ZeroGetCustomerResponse, rt)
                 err == checkForError(rt.resp, rt.err, errMessage)
             IN  IF ~IsNil(err)
                 THEN Return("GetCustomerByMobile", errMessage, req, rt, Nil, << >>, << >>, err)
                 ELSE Return("GetCustomerByMobile", errMessage, req, rt, << result >>,
                             << >>, << >>, Nil)

GetCustomerByBusinessCodeCall(gg, ctx, accessToken, cookie, businessCode, ev) ==
    LET errMessage == << "could not get customer info" >>
    IN  IF Len(cookie) = 0
        THEN Panicked("GetCustomerByBusinessCode", errMessage)
        ELSE LET req == SetResult(
                            SetQueryParams(
                                GetRequestWithBearerAuthWithCookie(ctx, accessToken, cookie),
                                << << BusinessCodeKey, businessCode >> >>),
                            "GetCustomerResponse", TRUE)
                 rt  == Execute(req, "GET",
                                gg.basePath \o << "/" >> \o gg.Config.GetCustomerEndpoint, ev)
                 result == CallerVariable(req, ZeroGetCustomerResponse, rt)
                 err == checkForError(rt.resp, rt.err, errMessage)
             IN  IF ~IsNil(err)
                 THEN Return("GetCustomerByBusinessCode", errMessage, req, rt, Nil,
                             << >>, << >>, err)
                 ELSE Return("GetCustomerByBusinessCode", errMessage, req, rt, << result >>,
                             << >>, << >>, Nil)

(***************************************************************************)
(* The inputs of the calls: arguments, and what the server and the network *)
(* can do to a round trip.                                                 *)
(***************************************************************************)
StatusCodes == { 200, 304, 400, 500 }

\* the reason phrase is the server's: the standard one, or one of its own
Reasons(code) == { << StatusText(code) >>, InvalidGrantMarker }

\* the cookies of a reply, and the cookie slices a caller passes
CookieSets == { << >>, << "c1" >>, << "c1", "c2" >> }

AccessTokens == { << >>, << "tok" >> }

BasePaths == { << "https://host" >>, << "https://host", "/" >>, << "https://host", "/", "/" >> }

RestyClients == { "default", "custom" }

\* {"error": text}
ErrorBodies == { JsonBody([ error |-> JString(t) ]) : t \in Texts }

TextBodies == { TextBody(<< >>), TextBody(<< " " >>), TextBody(<< "tok" >>), TextBody(<< "tok", " " >>) }

JWTBodies ==
    { JsonBody([ accessToken  |-> JString(<< "tok" >>),
                 refreshToken |-> JString(<< "ref" >>),
                 expiresAt    |-> JString(<< "2030-01-01T00:00:00Z" >>) ]),
      JsonBody([ refreshToken |-> JString(<< "ref" >>) ]),
      JsonBody([ accessToken |-> JNumber(7) ]),
      JsonBody(EmptyObject) }

CreateCustomerBodies ==
    { JsonBody([ BussinesCode |-> JString(<< "127013" >>),
                 BussinessID  |-> JString(<< "42" >>),
                 Existed      |-> JBool(FALSE) ]),
      JsonBody([ BussinesCode |-> JString(<< "127013" >>),
                 BussinessID  |-> JString(<< "42" >>),
                 Existed      |-> JBool(TRUE) ]),
      JsonBody([ Existed |-> JString(<< "yes" >>) ]),
      JsonBody(EmptyObject) }

CreateTransactionBodies ==
    { JsonBody([ data  |-> JArray(<< [ TransactionID |-> JNumber(1), TransNumber |-> JNumber(2),
                                       TransLineID   |-> JNumber(3), ItemID      |-> JNumber(4) ] >>),
                 error |-> JNull ]),
      JsonBody([ data |-> JArray(<< >>), error |-> JString(<< "EOF" >>) ]),
      JsonBody([ data |-> JString(<< "none" >>) ]),
      JsonBody(EmptyObject) }

CreateServiceBodies ==
    { JsonBody([ ServiceName |-> JString(<< "svc" >>), ItemCategoryId |-> JNumber(7) ]),
      JsonBody([ ServiceName |-> JNumber(7) ]),
      JsonBody(EmptyObject) }

GetCustomerBodies ==
    { JsonBody([ data  |-> JArray(<< [ BusinessID   |-> JString(<< "42" >>),
                                       BusinessCode |-> JString(<< "127013" >>),
                                       Mobile       |-> JString(<< "09128575183" >>) ] >>),
                 error |-> JNull ]),
      JsonBody([ data |-> JBool(FALSE) ]),
      JsonBody(EmptyObject) }

\* the round trips in which the transport reports an error
Failures ==
    { [ kind |-> k, err |-> t, reply |-> NoReply ] : k \in { "before", "io" }, t \in Texts }
    \cup { [ kind |-> "read", err |-> t,
            reply |-> MkReply(c, << StatusText(c) >>, TextBody(<< >>), << >>) ] :
              c \in StatusCodes, t \in Texts }

\* the round trips in which the server answers with one of `bodies`
Replies(bodies) ==
    UNION { { [ kind |-> "reply", err |-> << >>, reply |-> MkReply(c, r, b, k) ] :
                r \in Reasons(c), b \in bodies, k \in CookieSets } : c \in StatusCodes }

Events(bodies) == Failures \cup Replies(bodies \cup ErrorBodies \cup TextBodies)

\* the call's inputs, kept with what it returned
Call(ret, ctx, accessToken, cookie, ev) ==
    ret @@ [ ctx |-> ctx, accessToken |-> accessToken, cookie |-> cookie, ev |-> ev ]

NoEvent == [ kind |-> "none", err |-> << >>, reply |-> NoReply ]

(***************************************************************************)
(* The state machine.  g is the client handle; last is the call the       *)
(* caller has made and not yet moved on from, with its inputs and what it  *)
(* returned.  The caller makes one call at a time.  flight holds the calls *)
(* of callers running concurrently, one per caller, from the moment the    *)
(* call builds its request to the moment the caller takes what it          *)
(* returned; it is empty while there is one caller only.                   *)
(***************************************************************************)
\* no call made, or its outcome taken
Idle == Call([ Panicked("none", << >>) EXCEPT !.status = "idle" ],
             Background, << >>, << >>, NoEvent)

Ready == last.status = "idle"

\* a caller of the concurrent callers that has no call under way
NoCall ==
    [ status |-> "idle", op |-> "none", ctx |-> Background, cancelled |-> FALSE,
      client |-> "none", req |-> NewRequest, ret |-> Idle ]

Init ==
    /\ \E basePath \in BasePaths : g = NewClient(basePath, << >>)
    /\ last = Idle
    /\ flight = << >>

\* the caller takes what the call returned and goes on
Continue ==
    /\ last.status = "returned"
    /\ last' = Idle
    /\ UNCHANGED << g, flight >>

\* the setter overwriting the base URL along with the transport
SetRestyClient_ClearsBasePath ==
    /\ Ready
    /\ \E restyClient \in RestyClients :
          g' = [ g EXCEPT !.restyClient = restyClient, !.basePath = << >> ]
    /\ UNCHANGED << last, flight >>

SetRestyClient ==
    /\ Ready
    /\ \E restyClient \in RestyClients : g' = [ g EXCEPT !.restyClient = restyClient ]
    /\ UNCHANGED << last, flight >>

\* the exported request builders, called on their own
Builders ==
    { "GetRequest", "GetRequestWithBearerAuthNoCache", "GetRequestWithBearerAuth",
      "GetRequestWithBearerAuthWithCookie" }

\* what a builder hands back: the request, or a fault on an empty cookie slice
BuilderCall(builder, ctx, token, cookie) ==
    LET built(req) == [ Panicked(builder, << >>) EXCEPT !.status = "returned", !.req = req ]
    IN  CASE builder = "GetRequest" -> built(GetRequest(ctx))
          [] builder = "GetRequestWithBearerAuthNoCache" ->
                built(GetRequestWithBearerAuthNoCache(ctx, token))
          [] builder = "GetRequestWithBearerAuth" ->
                built(GetRequestWithBearerAuth(ctx, token))
          [] builder = "GetRequestWithBearerAuthWithCookie" ->
                IF Len(cookie) = 0
                THEN Panicked(builder, << >>)
                ELSE built(GetRequestWithBearerAuthWithCookie(ctx, token, cookie))

BuildRequest ==
    /\ Ready
    /\ \E builder \in Builders, ctx \in Contexts, token \in AccessTokens, cookie \in CookieSets :
          last' = Call(BuilderCall(builder, ctx, token, cookie), ctx, token, cookie, NoEvent)
    /\ UNCHANGED << g, flight >>

\* the error mapper applied to any response, error and context message
CheckForError ==
    /\ Ready
    /\ \E resp \in { Nil } \cup
                   { << [ StatusCode |-> c, Status |-> << ToString(c) >> \o r,
                          Error |-> e, Body |-> << >>, Cookies |-> << >> ] >> :
                       c \in StatusCodes, r \in Reasons(200),
                       e \in { [ type |-> "HTTPErrorResponse", val |-> HTTPErrorResponse(t) ] :
                                 t \in Texts }
                             \cup { [ type |-> ty, val |-> HTTPErrorResponse(<< >>) ] :
                                      ty \in { "nil", "other" } } },
          err \in { Nil } \cup { << t >> : t \in Texts },
          errMessage \in { << "could not get token" >>, << "could not get customer info" >> } :
            last' = Call([ Panicked("checkForError", errMessage) EXCEPT
                               !.status = "returned",
                               !.resp = resp,
                               !.terr = err,
                               !.err = checkForError(resp, err, errMessage) ],
                         Background, << >>, << >>, NoEvent)
    /\ UNCHANGED << g, flight >>

AdminAuthenticate ==
    /\ Ready
    /\ \E ctx \in Contexts, ev \in Events(JWTBodies) :
          last' = Call(AdminAuthenticateCall(g, ctx, << "admin" >>, << "secret" >>, ev),
                       ctx, << >>, << >>, ev)
    /\ UNCHANGED << g, flight >>

GetAdminToken ==
    /\ Ready
    /\ \E ctx \in Contexts, ev \in Events({}) :
          last' = Call(GetAdminTokenCall(g, ctx, << "admin" >>, << "secret" >>, ev),
                       ctx, << >>, << >>, ev)
    /\ UNCHANGED << g, flight >>

CreateCustomer ==
    /\ Ready
    /\ \E ctx \in Contexts, accessToken \in AccessTokens, ev \in Events(CreateCustomerBodies) :
          last' = Call(CreateCustomerCall(g, ctx, accessToken, "customer", ev),
                       ctx, accessToken, << >>, ev)
    /\ UNCHANGED << g, flight >>

CreateTransaction ==
    /\ Ready
    /\ \E ctx \in Contexts, accessToken \in AccessTokens, ev \in Events(CreateTransactionBodies) :
          last' = Call(CreateTransactionCall(g, ctx, accessToken, "transaction", ev),
                       ctx, accessToken, << >>, ev)
    /\ UNCHANGED << g, flight >>

CreateService ==
    /\ Ready
    /\ \E ctx \in Contexts, accessToken \in AccessTokens, ev \in Events(CreateServiceBodies) :
          last' = Call(CreateServiceCall(g, ctx, accessToken, "service", ev),
                       ctx, accessToken, << >>, ev)
    /\ UNCHANGED << g, flight >>

GetCustomerByMobile ==
    /\ Ready
    /\ \E ctx \in Contexts, accessToken \in AccessTokens, cookie \in CookieSets,
          ev \in Events(GetCustomerBodies) :
          last' = Call(GetCustomerByMobileCall(g, ctx, accessToken, cookie, << "09128575183" >>, ev),
                       ctx, accessToken, cookie, ev)
    /\ UNCHANGED << g, flight >>

GetCustomerByBusinessCode ==
    /\ Ready
    /\ \E ctx \in Contexts, accessToken \in AccessTokens, cookie \in CookieSets,
          ev \in Events(GetCustomerBodies) :
          last' = Call(GetCustomerByBusinessCodeCall(g, ctx, accessToken, cookie, << "127013" >>, ev),
                       ctx, accessToken, cookie, ev)
    /\ UNCHANGED << g, flight >>

Next ==
    \/ Continue
    \/ SetRestyClient
    \/ BuildRequest
    \/ CheckForError
    \/ AdminAuthenticate
    \/ GetAdminToken
    \/ CreateCustomer
    \/ CreateTransaction
    \/ CreateService
    \/ GetCustomerByMobile
    \/ GetCustomerByBusinessCode

Spec == Init /\ [][Next]_vars

(***************************************************************************)
(* Properties.                                                             *)
(***************************************************************************)
EndpointOps ==
    { "AdminAuthenticate", "GetAdminToken", "CreateCustomer", "CreateTransaction",
      "CreateService", "GetCustomerByMobile", "GetCustomerByBusinessCode" }

CreateOps == { "CreateCustomer", "CreateTransaction", "CreateService" }

\* the fixed context string of each operation
ContextOf(op) ==
    CASE op \in { "AdminAuthenticate", "GetAdminToken" } -> << "could not get token" >>
      [] op = "CreateCustomer"    -> << "could not create customer" >>
      [] op = "CreateTransaction" -> << "could not create transaction" >>
      [] op = "CreateService"     -> << "could not create service" >>
      [] op \in { "GetCustomerByMobile", "GetCustomerByBusinessCode" } ->
            << "could not get customer info" >>

\* an endpoint operation has returned to its caller
Returned == last.status = "returned" /\ last.op \in EndpointOps

\* the error mapper has been applied, by an operation or on its own
Mapped == last.status = "returned" /\ last.op \in EndpointOps \cup { "checkForError" }

\* the round trip gave no transport error and a response with an error status
HTTPErrorOutcome ==
    /\ Mapped
    /\ IsNil(last.terr)
    /\ ~IsNil(last.resp)
    /\ Deref(last.resp).StatusCode >= 400

\* the response carries a structured error that is not empty
StructuredError ==
    /\ Deref(last.resp).Error.type = "HTTPErrorResponse"
    /\ Deref(last.resp).Error.val.Error # << >>

\* C1: when the transport returns an error, every endpoint operation returns
\* a nil result (an empty token and nil cookies for GetAdminToken) and an
\* APIError with code 0 whose message contains the operation's context
\* string, whether or not a response accompanies the transport error.
C1_TransportErrorGivesContextError ==
    (Returned /\ ~IsNil(last.terr)) =>
        /\ IsNil(last.result)
        /\ last.token = << >>
        /\ last.cookies = << >>
        /\ ~IsNil(last.err)
        /\ Deref(last.err).Code = 0
        /\ Contains(APIErrorError(Deref(last.err)), ContextOf(last.op))

\* a transport error that came with a response of status 500
C1_Witness ==
    /\ Returned
    /\ last.op = "GetCustomerByMobile"
    /\ ~IsNil(last.terr)
    /\ ~IsNil(last.resp)
    /\ Deref(last.resp).StatusCode = 500
    /\ ~IsNil(last.err)

\* the Go type a create operation decodes its reply into
ResultTypeOf(op) ==
    CASE op = "CreateCustomer"    -> "CreateCustomerResponse"
      [] op = "CreateTransaction" -> "CreateTransactionResponse"
      [] op = "CreateService"     -> "CreateServiceResponse"

\* C2: when the server answers a create operation with a success status and
\* a JSON body, the value returned to the caller equals the deserialized
\* body, not a zero-valued record.
C2_CreateReturnsDecodedBody ==
    ( /\ Returned
      /\ last.op \in CreateOps
      /\ last.ev.kind = "reply"
      /\ last.ev.reply.StatusCode \in 200..299
      /\ last.ev.reply.Body.IsJSON
      /\ IsNil(last.err) ) =>
        /\ ~IsNil(last.result)
        /\ Deref(last.result) =
               Unmarshal(ResultTypeOf(last.op), last.ev.reply.Body.doc,
                         ZeroValue(ResultTypeOf(last.op)))

\* C3: with no transport error, an error status and a non-empty structured
\* error body, the returned error's code is the HTTP status code and its
\* message contains the structured body's rendering and the status line.
C3_StructuredErrorInMessage ==
    (HTTPErrorOutcome /\ StructuredError) =>
        /\ ~IsNil(last.err)
        /\ Deref(last.err).Code = Deref(last.resp).StatusCode
        /\ Contains(APIErrorError(Deref(last.err)),
                    HTTPErrorResponseString(Deref(last.resp).Error.val))
        /\ Contains(APIErrorError(Deref(last.err)), Deref(last.resp).Status)
        /\ (last.op \in EndpointOps =>
              /\ last.ev.reply.Body.IsJSON
              /\ Contains(APIErrorError(Deref(last.err)), last.ev.reply.Body.doc["error"].s))

\* an operation answered with status 500 and the body {"error": "EOF"}
C3_Witness ==
    /\ HTTPErrorOutcome
    /\ last.op = "CreateCustomer"
    /\ Deref(last.resp).StatusCode = 500
    /\ last.ev.reply.Body = JsonBody([ error |-> JString(<< "EOF" >>) ])
    /\ Deref(last.err).Code = 500

\* C4: with no transport error, an error status and a structured error body
\* that is empty, absent or not of the structured error type, the returned
\* error's message is exactly the status line and its code is the HTTP
\* status code.
C4_BareStatusLine ==
    (HTTPErrorOutcome /\ ~StructuredError) =>
        /\ ~IsNil(last.err)
        /\ APIErrorError(Deref(last.err)) = Deref(last.resp).Status
        /\ Deref(last.err).Code = Deref(last.resp).StatusCode

\* an operation answered with status 400 and a body that is not JSON
C4_Witness ==
    /\ HTTPErrorOutcome
    /\ last.op = "CreateService"
    /\ Deref(last.resp).StatusCode = 400
    /\ ~last.ev.reply.Body.IsJSON
    /\ APIErrorError(Deref(last.err)) = << "400", "Bad Request" >>

\* C5: checkForError returns nil exactly when the transport error is absent,
\* the response is not nil and the response has no HTTP error status.
C5_NilIffSuccess ==
    Mapped =>
        ( IsNil(last.err) <=>
            /\ IsNil(last.terr)
            /\ ~IsNil(last.resp)
            /\ Deref(last.resp).StatusCode < 400 )

\* the mapper applied to no error and no response: not a success
C5_Witness ==
    /\ last.status = "returned"
    /\ last.op = "checkForError"
    /\ IsNil(last.terr)
    /\ IsNil(last.resp)
    /\ ~IsNil(last.err)

\* C6: the error mapper gives exactly one of four outcomes, chosen in the
\* order transport failure, empty response (message "empty response", code
\* 0, kind unknown), HTTP error status, success.
C6_FourOutcomesInOrder ==
    Mapped =>
        IF ~IsNil(last.terr)
        THEN /\ ~IsNil(last.err)
             /\ Deref(last.err).Code = 0
             /\ Deref(last.err).Message = last.errMessage \o << ": " >> \o Deref(last.terr)
        ELSE IF IsNil(last.resp)
        THEN last.err = << [ Code    |-> 0,
                             Message |-> << "empty response" >>,
                             Type    |-> APIErrTypeUnknown ] >>
        ELSE IF Deref(last.resp).StatusCode >= 400
        THEN /\ ~IsNil(last.err)
             /\ Deref(last.err).Code = Deref(last.resp).StatusCode
             /\ Contains(Deref(last.err).Message, Deref(last.resp).Status)
        ELSE IsNil(last.err)

\* a transport error together with a response of error status: the
\* transport failure is the outcome
C6_Witness ==
    /\ last.status = "returned"
    /\ last.op = "checkForError"
    /\ ~IsNil(last.terr)
    /\ ~IsNil(last.resp)
    /\ Deref(last.resp).StatusCode = 500
    /\ Deref(last.err).Code = 0

AuthenticateSucceeded ==
    /\ Returned
    /\ last.op \in { "AdminAuthenticate", "GetAdminToken" }
    /\ IsNil(last.terr)
    /\ ~IsNil(last.resp)
    /\ Deref(last.resp).StatusCode < 400

AccessTokenOfReply(reply) ==
    IF /\ reply.StatusCode \in 200..299
       /\ reply.StatusCode # 204
       /\ reply.Body.IsJSON
       /\ "accessToken" \in DOMAIN reply.Body.doc
       /\ reply.Body.doc["accessToken"].t = "string"
    THEN reply.Body.doc["accessToken"].s
    ELSE << >>

\* the text of a reply's body without the white space around it
BodyTextOfReply(reply) ==
    LET t == reply.Body.text
        inside == { i \in 1..Len(t) : t[i] # " " }
    IN  IF inside = {} THEN << >>
        ELSE SubSeq(t, CHOOSE i \in inside : \A j \in inside : i <= j,
                       CHOOSE i \in inside : \A j \in inside : i >= j)

C9_HTTPErrorKindFromText ==
    HTTPErrorOutcome =>
        /\ ~IsNil(last.err)
        /\ Deref(last.err).Type =
              IF \/ Contains(Deref(last.resp).Status, InvalidGrantMarker)
                 \/ /\ Deref(last.resp).Error.type = "HTTPErrorResponse"
                    /\ Contains(Deref(last.resp).Error.val.Error, InvalidGrantMarker)
              THEN APIErrTypeInvalidGrant
              ELSE APIErrTypeUnknown

\* C10: for a transport failure the error's kind is invalid grant exactly
\* when the transport error's text contains "invalid_grant", and unknown
\* otherwise; ParseAPIErrType of a nil error is unknown; no kind is outside
\* {unknown, invalid grant}.
C10_TransportKindFromText ==
    /\ ParseAPIErrType(Nil) = APIErrTypeUnknown
    /\ Mapped =>
        /\ ~IsNil(last.err) =>
              Deref(last.err).Type \in { APIErrTypeUnknown, APIErrTypeInvalidGrant }
        /\ ~IsNil(last.terr) =>
              /\ ~IsNil(last.err)
              /\ Deref(last.err).Type = APIErrTypeInvalidGrant
                    <=> \E i \in 1..Len(Deref(last.terr)) - 1 :
                           /\ Deref(last.terr)[i] = "invalid_"
                           /\ Deref(last.terr)[i + 1] = "grant"
              /\ Deref(last.err).Type # APIErrTypeInvalidGrant
                    => Deref(last.err).Type = APIErrTypeUnknown

\* a transport failure whose text is "invalid_grant"
C10_Witness ==
    /\ Returned
    /\ last.op = "AdminAuthenticate"
    /\ last.terr = << << "invalid_", "grant" >> >>
    /\ Deref(last.err).Type = APIErrTypeInvalidGrant

\* the operations that take a bearer token
AuthenticatedOps ==
    { "CreateCustomer", "CreateTransaction", "CreateService",
      "GetCustomerByMobile", "GetCustomerByBusinessCode" }

\* the last call put a request on the wire
Sent == last.status = "returned" /\ last.op \in EndpointOps /\ ~IsNil(last.sent)

\* C11: no authenticated operation sends a request with an empty bearer
\* token: every request it sends has the caller's non-empty token in its
\* Authorization Bearer header, and Content-Type application/json.
C11_SentWithNonEmptyBearerToken ==
    (Sent /\ last.op \in AuthenticatedOps) =>
        /\ last.accessToken # << >>
        /\ Deref(last.sent).Authorization = << "Bearer" >> \o last.accessToken
        /\ Deref(last.sent).Header.ContentType = << "application/json" >>

\* the operations that take a cookie collection
CookieOps == { "GetCustomerByMobile", "GetCustomerByBusinessCode" }

\* C12: a cookie-bearing operation attaches the first cookie of the supplied
\* collection and no other; with an empty collection the call faults on the
\* first-element access before any request is sent: it neither returns an
\* error value nor sends a request without a cookie.
C12_FirstCookieOnlyOrFault ==
    (last.op \in CookieOps /\ last.status # "idle") =>
        IF last.cookie = << >>
        THEN /\ last.status = "panicked"
             /\ IsNil(last.sent)
             /\ IsNil(last.err)
             /\ IsNil(last.result)
        ELSE /\ last.status = "returned"
             /\ last.req.Cookies = << last.cookie[1] >>
             /\ ~IsNil(last.sent) => Deref(last.sent).Cookies = << last.cookie[1] >>

\* GetCustomerByBusinessCode called with an empty cookie collection
C12_Witness ==
    /\ last.op = "GetCustomerByBusinessCode"
    /\ last.cookie = << >>
    /\ last.status = "panicked"
    /\ IsNil(last.sent)

\* C13: after construction no step changes the handle's base URL or its
\* endpoint map: every endpoint operation and every request-builder call,
\* whatever it returns, leaves the whole handle as it was, and SetRestyClient
\* changes the transport only.
C13_HandleFrame ==
    [][ /\ g'.basePath = g.basePath
        /\ g'.Config = g.Config
        /\ last' # last => g' = g ]_vars

\* an operation has returned an error on a handle whose transport was
\* swapped, base URL and endpoint map being those of construction
C13_Witness ==
    /\ Returned
    /\ ~IsNil(last.err)
    /\ g.restyClient = "custom"
    /\ g.basePath = << "https://host" >>
    /\ g.Config = NewClient(<< >>, << >>).Config

(***************************************************************************)
(* Construction with options.  The handle is made from any base host and   *)
(* any list of options, and then used.                                     *)
(***************************************************************************)
\* the longest list of options
MaxOptions == 2

\* the base hosts given to NewClient: with and without trailing separators,
\* with a separator inside, and nothing but separators
BaseHosts ==
    BasePaths \cup { << >>, << "/" >>, << "https://host", "/", "api", "/" >>,
                     << "https://host", "/", "/", "api" >> }

\* func(*GoArpa) values: each sets an endpoint path or the transport
Options ==
    { [ field |-> "CreateCustomerEndpoint", value |-> << "v1", "/", "customers" >> ],
      [ field |-> "CreateCustomerEndpoint", value |-> << "v2", "/", "customers" >> ],
      [ field |-> "restyClient", value |-> "custom" ] }

OptionLists == UNION { [ 1..n -> Options ] : n \in 0..MaxOptions }

\* NewClient has returned the handle g
InitNewClient ==
    \E basePath \in BaseHosts, options \in OptionLists :
        /\ g = NewClient(basePath, options)
        /\ last = [ basePath |-> basePath, options |-> options ] @@
                  Call([ Panicked("NewClient", << >>) EXCEPT !.status = "returned" ],
                       Background, << >>, << >>, NoEvent)
        /\ flight = << >>

NextNewClient ==
    \/ Continue
    \/ SetRestyClient
    \/ BuildRequest
    \/ CreateCustomer

SpecNewClient == InitNewClient /\ [][NextNewClient]_vars

\* the default endpoint paths, as the server spells them
DefaultPaths ==
    [ GetServiceTokenEndpoint   |-> << "serv", "/", "token", "/", "GetServiceToken" >>,
      CreateCustomerEndpoint    |-> << "serv", "/", "api", "/", "PostBussiness" >>,
      CreateTransactionEndpoint |-> << "serv", "/", "api", "/", "NewTransaction" >>,
      CreateServiceEndpoint     |-> << "serv", "/", "api", "/", "PostService" >>,
      GetCustomerEndpoint       |-> << "serv", "/", "api", "/", "GetBusiness" >> ]

\* the places in `options` that set `field`
Setting(options, field) == { i \in 1..Len(options) : options[i].field = field }

\* the value of the last option that sets `field`, or `default`
LastSet(options, field, default) ==
    IF Setting(options, field) = {} THEN default
    ELSE options[CHOOSE i \in Setting(options, field) :
                     \A j \in Setting(options, field) : j <= i].value

\* C14: NewClient strips every trailing "/" of the base host and nothing
\* else, and gives every endpoint its default path; the options are then
\* applied in argument order, so that a field an option sets has the value of
\* the last option setting it, and every other field keeps its default.
C14_DefaultsThenOptionsInOrder ==
    (last.op = "NewClient" /\ last.status = "returned") =>
        /\ \E n \in 0..Len(last.basePath) :
              /\ g.basePath = SubSeq(last.basePath, 1, Len(last.basePath) - n)
              /\ \A i \in Len(last.basePath) - n + 1..Len(last.basePath) :
                    last.basePath[i] = "/"
              /\ Len(g.basePath) > 0 => g.basePath[Len(g.basePath)] # "/"
        /\ \A field \in DOMAIN DefaultPaths :
              g.Config[field] = LastSet(last.options, field, DefaultPaths[field])
        /\ DOMAIN g.Config = DOMAIN DefaultPaths
        /\ g.restyClient = LastSet(last.options, "restyClient", "default")

\* two options set the same endpoint, the base host ends with two separators
C14_Witness ==
    /\ last.op = "NewClient"
    /\ last.basePath = << "https://host", "/", "/" >>
    /\ Len(last.options) = 2
    /\ \A i \in 1..2 : last.options[i].field = "CreateCustomerEndpoint"
    /\ last.options[1].value = << "v1", "/", "customers" >>
    /\ last.options[2].value = << "v2", "/", "customers" >>
    /\ g.basePath = << "https://host" >>
    /\ g.Config.CreateCustomerEndpoint = << "v2", "/", "customers" >>

\* the call of operation or builder `op` with the arguments the caller
\* gives it
OperationCall(op, gg, ctx, accessToken, cookie, ev) ==
    CASE op = "AdminAuthenticate" ->
            AdminAuthenticateCall(gg, ctx, << "admin" >>, << "secret" >>, ev)
      [] op = "GetAdminToken" ->
            GetAdminTokenCall(gg, ctx, << "admin" >>, << "secret" >>, ev)
      [] op = "CreateCustomer" -> CreateCustomerCall(gg, ctx, accessToken, "customer", ev)
      [] op = "CreateTransaction" ->
            CreateTransactionCall(gg, ctx, accessToken, "transaction", ev)
      [] op = "CreateService" -> CreateServiceCall(gg, ctx, accessToken, "service", ev)
      [] op = "GetCustomerByMobile" ->
            GetCustomerByMobileCall(gg, ctx, accessToken, cookie, << "09128575183" >>, ev)
      [] op = "GetCustomerByBusinessCode" ->
            GetCustomerByBusinessCodeCall(gg, ctx, accessToken, cookie, << "127013" >>, ev)
      [] op \in Builders -> BuilderCall(op, ctx, accessToken, cookie)

\* the last call, had its context held no span
Untraced == OperationCall(last.op, g, Background, last.accessToken, last.cookie, last.ev)

\* the tracing header a context with a span asks for
TraceHeaderOf(ctx) == IF ctx.tracer = "none" THEN << "global" >> ELSE << ctx.tracer >>

\* C15: tracing injection is optional and never fatal.  Without a span the
\* request is the one built without tracing.  With a span the tracer of the
\* context, or the global tracer when the context has none, writes the tracing
\* header and nothing else.  When the injection fails the request is still
\* handed back, without the header, and no error comes of it.  Whatever the
\* tracing did, the call returns what it returns without a span.
C15_TracingOptionalNonFatal ==
    (last.op \in EndpointOps \cup Builders /\ last.status # "idle") =>
        /\ last.status = Untraced.status
        /\ last.status = "returned" =>
              /\ last.req.Context = last.ctx
              /\ [ last.req EXCEPT !.Context = Background, !.Header.Trace = << >> ]
                    = Untraced.req
              /\ last.req.Header.Trace =
                    IF last.ctx.span /\ last.ctx.injectOk THEN TraceHeaderOf(last.ctx)
                    ELSE << >>
              /\ last.result = Untraced.result
              /\ last.err = Untraced.err
              /\ last.token = Untraced.token
              /\ last.cookies = Untraced.cookies
              /\ last.resp = Untraced.resp

\* an operation succeeded although the injection of its span failed
C15_Witness ==
    /\ Returned
    /\ last.op = "GetCustomerByMobile"
    /\ last.ctx.span
    /\ ~last.ctx.injectOk
    /\ last.req.Header.Trace = << >>
    /\ IsNil(last.err)
    /\ ~IsNil(last.result)

(***************************************************************************)
(* Concurrent callers.  Each caller runs one call at a time on the shared  *)
(* handle: the call builds its request from the handle as it is then, the  *)
(* round trip is under way until the transport hands back a reply or a     *)
(* failure, or gives up because the context of the request is done, and    *)
(* the caller then takes what the call returned.  SetRestyClient may run   *)
(* between any two of these steps.  It writes g.restyClient with no lock   *)
(* while GetRequest reads it: the read sees the pointer of before or of    *)
(* after the write, which are the two orders of the steps.                 *)
(***************************************************************************)
\* the number of concurrent callers
MaxCallers == 2

Callers == 1..MaxCallers

\* the operations the concurrent callers call
FlightOps == { "GetAdminToken", "CreateTransaction", "GetCustomerByMobile" }

\* ctx, cancel := context.WithCancel(context.Background()) of caller c
CallerContext(c) == [ Background EXCEPT !.done = << c >> ]

\* the request operation `op` builds
RequestOf(op, gg, ctx, accessToken, cookie) ==
    OperationCall(op, gg, ctx, accessToken, cookie,
                  [ kind |-> "before", err |-> << >>, reply |-> NoReply ]).req

\* a reply the server gives to `op` when all is well
GoodBody(op) ==
    CASE op = "GetAdminToken" -> TextBody(<< "tok" >>)
      [] op = "CreateTransaction" ->
            CHOOSE b \in CreateTransactionBodies :
                /\ UnmarshalOk("CreateTransactionResponse", b.doc)
                /\ Unmarshal("CreateTransactionResponse", b.doc, ZeroCreateTransactionResponse)
                      # ZeroCreateTransactionResponse
      [] op = "GetCustomerByMobile" ->
            CHOOSE b \in GetCustomerBodies :
                /\ UnmarshalOk("GetCustomerResponse", b.doc)
                /\ Unmarshal("GetCustomerResponse", b.doc, ZeroGetCustomerResponse)
                      # ZeroGetCustomerResponse

\* what can come of a round trip of `op` that is left to run
FlightEvents(op) ==
    { [ kind |-> "io", err |-> << "EOF" >>, reply |-> NoReply ],
      [ kind |-> "reply", err |-> << >>,
        reply |-> MkReply(500, << StatusText(500) >>,
                          JsonBody([ error |-> JString(<< "grant" >>) ]), << >>) ],
      [ kind |-> "reply", err |-> << >>,
        reply |-> MkReply(200, << StatusText(200) >>, GoodBody(op), << "c1" >>) ] }

\* the round trip given up: net/http hands back the context's error
Canceled == [ kind |-> "io", err |-> << "context canceled" >>, reply |-> NoReply ]

\* the Done channel of the request's context is closed
Done(ctx) == ~IsNil(ctx.done) /\ flight[Deref(ctx.done)].cancelled

InitInFlight ==
    /\ \E basePath \in BasePaths : g = NewClient(basePath, << >>)
    /\ last = Idle
    /\ flight = [ c \in Callers |-> NoCall ]

\* caller c calls an operation: the request is built on g.restyClient and
\* the round trip begins
StartCall(c) ==
    /\ flight[c].status = "idle"
    /\ \E op \in FlightOps :
          flight' = [ flight EXCEPT ![c] =
                        [ status    |-> "inflight",
                          op        |-> op,
                          ctx       |-> CallerContext(c),
                          cancelled |-> FALSE,
                          client    |-> g.restyClient,
                          req       |-> RequestOf(op, g, CallerContext(c), << "tok" >>, << "c1" >>),
                          ret       |-> Idle ] ]
    /\ UNCHANGED << g, last >>

\* caller c cancels its context while its round trip is under way
CancelContext(c) ==
    /\ flight[c].status = "inflight"
    /\ ~flight[c].cancelled
    /\ flight' = [ flight EXCEPT ![c].cancelled = TRUE ]
    /\ UNCHANGED << g, last >>

\* the round trip of c's call ending with another caller's reply
RoundTrip_SharedResponse(c) ==
    /\ flight[c].status = "inflight"
    /\ ~Done(flight[c].req.Context)
    /\ \E ev \in FlightEvents(flight[c].op) :
          LET others == { d \in Callers : d # c /\ flight[d].status = "returned" }
              used   == IF others = {} THEN ev ELSE flight[CHOOSE d \in others : TRUE].ret.ev
          IN  flight' = [ flight EXCEPT
                  ![c].status = "returned",
                  ![c].ret = Call(OperationCall(flight[c].op, g, flight[c].ctx,
                                                << "tok" >>, << "c1" >>, used),
                                  flight[c].ctx, << "tok" >>, << "c1" >>, ev) ]
    /\ UNCHANGED << g, last >>

\* the round trip of c's call ends with a reply or a failure, and the call
\* returns
RoundTrip(c) ==
    /\ flight[c].status = "inflight"
    /\ ~Done(flight[c].req.Context)
    /\ \E ev \in FlightEvents(flight[c].op) :
          flight' = [ flight EXCEPT
              ![c].status = "returned",
              ![c].ret = Call(OperationCall(flight[c].op, g, flight[c].ctx,
                                            << "tok" >>, << "c1" >>, ev),
                              flight[c].ctx, << "tok" >>, << "c1" >>, ev) ]
    /\ UNCHANGED << g, last >>

\* the context of the request is done: the transport gives the round trip
\* up, and the call returns
Abort(c) ==
    /\ flight[c].status = "inflight"
    /\ Done(flight[c].req.Context)
    /\ flight' = [ flight EXCEPT
          ![c].status = "returned",
          ![c].ret = Call(OperationCall(flight[c].op, g, flight[c].ctx,
                                        << "tok" >>, << "c1" >>, Canceled),
                          flight[c].ctx, << "tok" >>, << "c1" >>, Canceled) ]
    /\ UNCHANGED << g, last >>

\* caller c takes what its call returned
TakeResult(c) ==
    /\ flight[c].status = "returned"
    /\ flight' = [ flight EXCEPT ![c] = NoCall ]
    /\ UNCHANGED << g, last >>

NextInFlight ==
    \/ SetRestyClient
    \/ \E c \in DOMAIN flight : StartCall(c)
    \/ \E c \in DOMAIN flight : CancelContext(c)
    \/ \E c \in DOMAIN flight : RoundTrip(c)
    \/ \E c \in DOMAIN flight : Abort(c)
    \/ \E c \in DOMAIN flight : TakeResult(c)

SpecInFlight == InitInFlight /\ [][NextInFlight]_vars

\* what c's call returns when it runs alone with the same arguments and the
\* same round trip
Alone(c) ==
    OperationCall(flight[c].op, g, flight[c].ctx, flight[c].ret.accessToken,
                  flight[c].ret.cookie, flight[c].ret.ev)

InitCancel ==
    /\ \E basePath \in BaseHosts, options \in OptionLists : g = NewClient(basePath, options)
    /\ last = Idle
    /\ flight = << NoCall >>

\* net/http watches the Done channel of the request's context for as long
\* as the round trip is under way, and hands back the context's error as
\* soon as the channel is closed: giving up is never put off for ever
SpecCancel == InitCancel /\ [][NextInFlight]_vars /\ WF_vars(Abort(1))

\* c's call has returned no result and an error that carries the cancellation
ReturnedCancellation(c) ==
    /\ flight[c].status = "returned"
    /\ IsNil(flight[c].ret.result)
    /\ flight[c].ret.token = << >>
    /\ ~IsNil(flight[c].ret.err)
    /\ Contains(Deref(flight[c].ret.err).Message, << "context canceled" >>)
    /\ Contains(Deref(flight[c].ret.err).Message, flight[c].ret.errMessage)

\* C17: the request of every call carries the caller's context; a call whose
\* context is cancelled while its round trip is under way returns, with no
\* result and an error that carries the cancellation, and never with a
\* success.
C17_CancelledCallReturnsError ==
    /\ [](flight[1].status # "idle" => flight[1].req.Context = flight[1].ctx)
    /\ []((flight[1].status = "returned" /\ flight[1].cancelled) => ReturnedCancellation(1))
    /\ (flight[1].status = "inflight" /\ flight[1].cancelled) ~> ReturnedCancellation(1)

\* a call cancelled while its round trip was under way has returned the
\* cancellation
C17_Witness ==
    /\ Len(flight) = 1
    /\ flight[1].cancelled
    /\ ReturnedCancellation(1)
    /\ flight[1].op = "GetCustomerByMobile"
    /\ flight[1].ret.sent # Nil

====
